---- MODULE Spec2Model ----
(***************************************************************************)
(* Model of notebooks/pii_detection/pii_detection_training_example.ipynb:  *)
(* the cells of the notebook as steps over the kernel's variables.         *)
(*                                                                         *)
(* Library calls are modelled by what the library does on the values the   *)
(* notebook passes (cudf column selection, torch random_split and          *)
(* DataLoader, sklearn f1_score / accuracy_score /                         *)
(* multilabel_confusion_matrix on multilabel-indicator input).  Tensors    *)
(* are sequences; real-valued results are exact rationals [num, den].      *)
(***************************************************************************)
EXTENDS Integers, Sequences, FiniteSets, TLC

(***************************************************************************)
(* Bounds of the model                                                     *)
(***************************************************************************)
MaxLabels == 2
MaxRows == 2
MaxN == 5

(***************************************************************************)
(* Generic helpers                                                         *)
(***************************************************************************)
Range(s) == {s[i] : i \in 1..Len(s)}

RECURSIVE SeqSum(_)
SeqSum(s) == IF s = <<>> THEN 0 ELSE Head(s) + SeqSum(Tail(s))

\* all sequences of length n over S
SeqsOfLen(S, n) == [1..n -> S]

\* all sequences over S without repetition, of length n
InjSeqs(S, n) == {s \in [1..n -> S] : \A i, j \in 1..n : s[i] = s[j] => i = j}

\* torch.randperm(n): any permutation of the indices (1-based here)
Perms(n) == InjSeqs(1..n, n)

(***************************************************************************)
(* Kernel state                                                            *)
(***************************************************************************)
VARIABLES
  pc,                  \* the next cell / statement to run
  df_columns,          \* df.columns, in file order
  df_rows,             \* df rows; row[j] is the value under df_columns[j]
  label_names,
  labels,
  input_ids,
  dataset_size,
  train_size,
  training_dataset,    \* Subset.indices of the training subset
  validation_dataset,  \* Subset.indices of the validation subset
  n_gpu,
  param_optimizer,     \* names of model.named_parameters(), in order
  optimizer_grouped_parameters,
  params,              \* the model's weights: number of updates applied to them
  grad,                \* accumulated .grad of the weights
  epoch,               \* iterations of the epoch loop started
  train_iter,          \* batches the train_dataloader iterator has yet to yield
  batch,               \* sample indices of the current batch
  loss,                \* the loss tensor, as the sequence of its elements
  tr_loss,
  nb_tr_examples,
  nb_tr_steps,
  train_out,           \* the "Train loss" lines printed, as [num, den]
  ops,                 \* history: operations run on the current batch
  step_losses,         \* history: loss.item() of the steps of the current epoch
  loader_batches,      \* history: batches the loader produced for this epoch
  processed,           \* history: batches the loop body completed this epoch
  val_iter,            \* batches the val_dataloader iterator has yet to yield
  forwarded,           \* history: validation batches given a forward pass
  logit_preds,
  true_labels,
  pred_labels,
  pred_bools,
  true_bools,
  val_f1_accuracy,
  val_flat_accuracy,
  cf_out               \* the (label, confusion matrix) pairs printed

dataVars == <<df_columns, df_rows>>
extractVars == <<label_names, labels, input_ids>>
splitVars == <<dataset_size, train_size, training_dataset, validation_dataset>>
optVars == <<n_gpu, param_optimizer, optimizer_grouped_parameters>>
trackVars == <<tr_loss, nb_tr_examples, nb_tr_steps, train_out>>
histVars == <<ops, step_losses, loader_batches, processed>>
trainVars == <<params, grad, epoch, train_iter, batch, loss, trackVars, histVars>>
evalVars == <<val_iter, forwarded, logit_preds, true_labels, pred_labels,
              pred_bools, true_bools, val_f1_accuracy, val_flat_accuracy, cf_out>>

vars == <<pc, dataVars, extractVars, splitVars, optVars, trainVars, evalVars>>

\* values of the variables a cell has not assigned yet
NoExtract == label_names = <<>> /\ labels = <<>> /\ input_ids = <<>>
NoSplit ==
  /\ dataset_size = 0
  /\ train_size = 0
  /\ training_dataset = <<>>
  /\ validation_dataset = <<>>
NoOptimizer == param_optimizer = <<>> /\ optimizer_grouped_parameters = <<>>
NoTrain ==
  /\ params = 0
  /\ grad = 0
  /\ epoch = 0
  /\ train_iter = <<>>
  /\ batch = <<>>
  /\ loss = <<>>
  /\ tr_loss = 0
  /\ nb_tr_examples = 0
  /\ nb_tr_steps = 0
  /\ train_out = <<>>
  /\ ops = <<>>
  /\ step_losses = <<>>
  /\ loader_batches = <<>>
  /\ processed = <<>>
NoEval ==
  /\ val_iter = <<>>
  /\ forwarded = <<>>
  /\ logit_preds = <<>>
  /\ true_labels = <<>>
  /\ pred_labels = <<>>
  /\ pred_bools = <<>>
  /\ true_bools = <<>>
  /\ val_f1_accuracy = [num |-> 0, den |-> 1]
  /\ val_flat_accuracy = [num |-> 0, den |-> 1]
  /\ cf_out = <<>>

(***************************************************************************)
(* Load training dataset / label extraction (cells victorian-blade,        *)
(* continental-strand)                                                     *)
(***************************************************************************)
TextColumn == "text"
LabelOrder == <<"email", "ssn", "phone">>
LabelPool == {LabelOrder[i] : i \in 1..Len(LabelOrder)}
\* text contents are encoded as integers outside the label values 0 and 1
Texts == {7}

\* (variant: the first column is dropped, whatever it is)
ListRemoveHead(l, x) == Tail(l)

\* list.remove(x): delete the first occurrence of x
ListRemove(l, x) ==
  LET i == CHOOSE k \in 1..Len(l) : l[k] = x /\ \A m \in 1..(k - 1) : l[m] # x
  IN  SubSeq(l, 1, i - 1) \o SubSeq(l, i + 1, Len(l))

\* position of a column name in df.columns (names are unique in a cudf frame)
ColIndex(cols, name) == CHOOSE j \in 1..Len(cols) : cols[j] = name

\* (variant: the columns after the first, taken by position)
SelectColumnsByPosition(cols, rows, names) ==
  [r \in 1..Len(rows) |-> [k \in 1..Len(names) |-> rows[r][k + 1]]]

\* df[names]: the frame restricted to the named columns, in the order of names
SelectColumns(cols, rows, names) ==
  [r \in 1..Len(rows) |-> [k \in 1..Len(names) |-> rows[r][ColIndex(cols, names[k])]]]

\* the column lists a table can have: `text` and nLabels distinct label names
ColumnLists(nLabels) ==
  {c \in InjSeqs(LabelPool \cup {TextColumn}, nLabels + 1) : TextColumn \in Range(c)}

\* the rows a table with columns cols can have: text under `text`, 0/1 elsewhere
RowsOf(cols) ==
  {r \in [1..Len(cols) -> {0, 1} \cup Texts] :
     \A j \in 1..Len(cols) : (r[j] \in Texts) <=> (cols[j] = TextColumn)}

\* label_names = list(df.columns); label_names.remove('text')
LabelNamesCell ==
  /\ pc = "label_names"
  /\ label_names' = ListRemove(df_columns, TextColumn)
  /\ pc' = "labels"
  /\ UNCHANGED <<dataVars, labels, input_ids, splitVars, optVars, trainVars, evalVars>>

\* labels = from_dlpack(df[label_names].to_dlpack()).type(torch.long)
LabelsCell ==
  /\ pc = "labels"
  /\ labels' = SelectColumns(df_columns, df_rows, label_names)
  /\ pc' = "tokenize"
  /\ UNCHANGED <<dataVars, label_names, input_ids, splitVars, optVars, trainVars, evalVars>>

\* input_ids, attention_masks = TOKENIZER(df.text, 256): one row of token ids per
\* text, truncated or padded to the sequence length; the ids of a text are
\* abstracted to the text itself followed by padding
Tokenize(text) == <<text, 0>>

TokenizeCell ==
  /\ pc = "tokenize"
  /\ input_ids' = [r \in 1..Len(df_rows) |->
                     Tokenize(df_rows[r][ColIndex(df_columns, TextColumn)])]
  /\ pc' = "split"
  /\ UNCHANGED <<dataVars, label_names, labels, splitVars, optVars, trainVars, evalVars>>

\* the kernel after the cells up to tokenization ran on the table (cols, rows)
Extracted(cols, rows) ==
  /\ df_columns = cols
  /\ df_rows = rows
  /\ label_names = ListRemove(cols, TextColumn)
  /\ labels = SelectColumns(cols, rows, label_names)
  /\ input_ids = [r \in 1..Len(rows) |-> Tokenize(rows[r][ColIndex(cols, TextColumn)])]

InitExtract ==
  /\ pc = "label_names"
  /\ \E nl \in 1..MaxLabels : df_columns \in ColumnLists(nl)
  /\ \E n \in 0..MaxRows : df_rows \in SeqsOfLen(RowsOf(df_columns), n)
  /\ NoExtract
  /\ NoSplit
  /\ n_gpu = 1
  /\ NoOptimizer
  /\ NoTrain
  /\ NoEval

NextExtract == LabelNamesCell \/ LabelsCell \/ TokenizeCell

SpecExtract == InitExtract /\ [][NextExtract]_vars

(***************************************************************************)
(* Split into train and test sets (cell broke-millennium)                  *)
(***************************************************************************)
\* (variant: round(dataset_size * .8), to the nearest instead of down)
TrainSizeRounded(n) == (8 * n + 5) \div 10

\* int(dataset_size * .8): the product is truncated; for the sizes modelled
\* the double product truncates to floor(8 * n / 10)
TrainSize(n) == (8 * n) \div 10

\* random_split(dataset, (a, b)): consecutive slices of one random permutation
RandomSplit(perm, a, b) == <<SubSeq(perm, 1, a), SubSeq(perm, a + 1, a + b)>>

SplitCell ==
  /\ pc = "split"
  /\ dataset_size' = Len(input_ids)
  /\ train_size' = TrainSize(dataset_size')
  /\ \E perm \in Perms(dataset_size') :
       LET parts == RandomSplit(perm, train_size', dataset_size' - train_size')
       IN  /\ training_dataset' = parts[1]
           /\ validation_dataset' = parts[2]
  /\ pc' = "model"
  /\ UNCHANGED <<dataVars, extractVars, optVars, trainVars, evalVars>>

\* a table whose contents the split does not read: two labels, constant rows
PlainColumns == <<TextColumn, "email", "ssn">>
PlainRow == <<7, 1, 0>>

InitSplit ==
  /\ pc = "split"
  /\ \E n \in 0..MaxN : Extracted(PlainColumns, [r \in 1..n |-> PlainRow])
  /\ NoSplit
  /\ n_gpu = 1
  /\ NoOptimizer
  /\ NoTrain
  /\ NoEval

NextSplit == SplitCell

SpecSplit == InitSplit /\ [][NextSplit]_vars

(***************************************************************************)
(* Model and devices (cells raising-tiger .. advance-algorithm)            *)
(***************************************************************************)
MaxGpu == 2

\* names are sequences of characters, so that `nd in n` is a substring test
HasSubstr(n, nd) == \E i \in 1..(Len(n) - Len(nd) + 1) : SubSeq(n, i, i + Len(nd) - 1) = nd

HasSuffix(n, suf) == Len(n) >= Len(suf) /\ SubSeq(n, Len(n) - Len(suf) + 1, Len(n)) = suf

\* parameter names of a transformers BERT classifier, by their last two components
\* (the prefixes bert.embeddings., bert.encoder.layer.N.... hold none of the
\* no_decay substrings), in the order named_parameters() yields them
ParameterNames == <<
  <<"w", "o", "r", "d", "_", "e", "m", "b", "e", "d", "d", "i", "n", "g", "s", ".", "w", "e", "i", "g", "h", "t">>,
  <<"L", "a", "y", "e", "r", "N", "o", "r", "m", ".", "w", "e", "i", "g", "h", "t">>,
  <<"L", "a", "y", "e", "r", "N", "o", "r", "m", ".", "b", "i", "a", "s">>,
  <<"d", "e", "n", "s", "e", ".", "w", "e", "i", "g", "h", "t">>,
  <<"d", "e", "n", "s", "e", ".", "b", "i", "a", "s">>,
  <<"c", "l", "a", "s", "s", "i", "f", "i", "e", "r", ".", "w", "e", "i", "g", "h", "t">>,
  <<"c", "l", "a", "s", "s", "i", "f", "i", "e", "r", ".", "b", "i", "a", "s">>
>>

\* the parameters of the normalization layers, and the bias parameters
IsNormalization(n) == HasSubstr(n, <<"L", "a", "y", "e", "r", "N", "o", "r", "m">>)
IsBias(n) == HasSuffix(n, <<".", "b", "i", "a", "s">>)

\* the elements of u whose index is in S, in the order of u
RECURSIVE Pick(_, _)
Pick(u, S) ==
  IF u = <<>> THEN <<>>
  ELSE LET front == Pick(SubSeq(u, 1, Len(u) - 1), S)
       IN  IF Len(u) \in S THEN Append(front, u[Len(u)]) ELSE front

(***************************************************************************)
(* Optimizer (cell threatened-difficulty)                                  *)
(***************************************************************************)
no_decay == <<<<"b", "i", "a", "s">>, <<"g", "a", "m", "m", "a">>, <<"b", "e", "t", "a">>>>

\* weight_decay_rate of the two groups, in thousandths
DecayRate == 10
NoDecayRate == 0

\* any(nd in n for nd in no_decay)
AnyNoDecay(n) == \E k \in 1..Len(no_decay) : HasSubstr(n, no_decay[k])

\* the two groups; [p for n, p in param_optimizer if ...] keeps the order, and
\* a parameter is identified by its name
OptimizerGroups(named) ==
  LET Decayed(n) == ~AnyNoDecay(n)
  IN  << [params |-> SelectSeq(named, Decayed), weight_decay_rate |-> DecayRate],
         [params |-> SelectSeq(named, AnyNoDecay), weight_decay_rate |-> NoDecayRate] >>

OptimizerCell ==
  /\ pc = "optimizer"
  /\ optimizer_grouped_parameters' = OptimizerGroups(param_optimizer)
  /\ pc' = "epoch_head"
  /\ UNCHANGED <<dataVars, extractVars, splitVars, n_gpu, param_optimizer,
                 trainVars, evalVars>>

\* the kernel before the optimizer cell: some model's parameters are listed
InitOpt ==
  /\ pc = "optimizer"
  /\ Extracted(PlainColumns, <<PlainRow, PlainRow>>)
  /\ dataset_size = 2
  /\ train_size = 1
  /\ \E first \in 1..2 :
       /\ training_dataset = <<first>>
       /\ validation_dataset = <<3 - first>>
  /\ n_gpu \in 1..MaxGpu
  /\ \E S \in SUBSET (1..Len(ParameterNames)) : param_optimizer = Pick(ParameterNames, S)
  /\ optimizer_grouped_parameters = <<>>
  /\ NoTrain
  /\ NoEval

NextOpt == OptimizerCell

SpecOpt == InitOpt /\ [][NextOpt]_vars

(***************************************************************************)
(* Data loaders (cell broke-millennium, lines 225-226)                     *)
(***************************************************************************)
\* batch_size of the two loaders, scaled down from 32 and 64
TrainBatchSize == 1
ValBatchSize == 2

\* DataLoader batching with drop_last=False: consecutive chunks, the last one
\* possibly short
RECURSIVE Batches(_, _)
Batches(s, size) ==
  IF s = <<>> THEN <<>>
  ELSE IF Len(s) <= size THEN <<s>>
  ELSE <<SubSeq(s, 1, size)>> \o Batches(SubSeq(s, size + 1, Len(s)), size)

\* (variant: the sampler draws with replacement)
TrainLoaderOrdersWithReplacement(subset) == [1..Len(subset) -> Range(subset)]

\* iter(train_dataloader), shuffle=True: the subset in the order of a fresh
\* random permutation, batched
TrainLoaderOrders(subset) ==
  {[k \in 1..Len(subset) |-> subset[perm[k]]] : perm \in Perms(Len(subset))}

TrainBatches(order) == Batches(order, TrainBatchSize)

\* (variant: drop_last=True, a short last batch is not yielded)
ValBatchesDropLast(subset) ==
  SelectSeq(Batches(subset, ValBatchSize), LAMBDA b : Len(b) = ValBatchSize)

\* iter(val_dataloader), shuffle=False: the subset in its own order, batched
ValBatches(subset) == Batches(subset, ValBatchSize)

(***************************************************************************)
(* Fine-tune model (cell persistent-watts)                                 *)
(***************************************************************************)
epochs == 4

\* values a step's loss can take (abstract units)
LossValues == {1, 2}

\* (variant: the running loss is carried over from the epoch before)
NewEpochLossCarried(previous) == previous

\* tr_loss = 0 at the top of every epoch
NewEpochLoss(previous) == 0

\* (variant: the averaging is never taken)
UseMeanNever(n) == FALSE

\* if n_gpu > 1
UseMean(n) == n > 1

\* loss.mean(): the mean of the tensor's elements, a scalar tensor
TensorMean(t) == <<SeqSum(t) \div Len(t)>>

\* for _ in trange(epochs): tracking variables reset, loader iterator created
EpochStart ==
  /\ pc = "epoch_head"
  /\ epoch < epochs
  /\ epoch' = epoch + 1
  /\ tr_loss' = NewEpochLoss(tr_loss)
  /\ nb_tr_examples' = 0
  /\ nb_tr_steps' = 0
  /\ \E order \in TrainLoaderOrders(training_dataset) :
       /\ train_iter' = TrainBatches(order)
       /\ loader_batches' = TrainBatches(order)
  /\ step_losses' = <<>>
  /\ processed' = <<>>
  /\ pc' = "batch_head"
  /\ UNCHANGED <<dataVars, extractVars, splitVars, optVars, params, grad, batch,
                 loss, train_out, ops, evalVars>>

\* the epoch loop is exhausted: the cell ends
TrainDone ==
  /\ pc = "epoch_head"
  /\ epoch >= epochs
  /\ pc' = "eval"
  /\ UNCHANGED <<dataVars, extractVars, splitVars, optVars, trainVars, evalVars>>

\* for batch in train_dataloader: b_input_ids, b_input_mask, b_labels = batch
NextBatch ==
  /\ pc = "batch_head"
  /\ train_iter # <<>>
  /\ batch' = Head(train_iter)
  /\ train_iter' = Tail(train_iter)
  /\ ops' = <<>>
  /\ pc' = "zero_grad"
  /\ UNCHANGED <<dataVars, extractVars, splitVars, optVars, params, grad, epoch,
                 loss, trackVars, step_losses, loader_batches, processed, evalVars>>

\* the loader is exhausted: fall through to the print
EpochBatchesDone ==
  /\ pc = "batch_head"
  /\ train_iter = <<>>
  /\ pc' = "print"
  /\ UNCHANGED <<dataVars, extractVars, splitVars, optVars, trainVars, evalVars>>

\* optimizer.zero_grad()
ZeroGrad ==
  /\ pc = "zero_grad"
  /\ grad' = 0
  /\ ops' = Append(ops, "zero_grad")
  /\ pc' = "forward"
  /\ UNCHANGED <<dataVars, extractVars, splitVars, optVars, params, epoch,
                 train_iter, batch, loss, trackVars, step_losses, loader_batches,
                 processed, evalVars>>

\* outputs = model(b_input_ids, attention_mask=b_input_mask); logits = outputs[0]
Forward ==
  /\ pc = "forward"
  /\ ops' = Append(ops, "forward")
  /\ pc' = "loss"
  /\ UNCHANGED <<dataVars, extractVars, splitVars, optVars, params, grad, epoch,
                 train_iter, batch, loss, trackVars, step_losses, loader_batches,
                 processed, evalVars>>

\* loss = BCEWithLogitsLoss()(logits, labels): reduction 'mean', a scalar tensor
ComputeLoss ==
  /\ pc = "loss"
  /\ \E v \in LossValues : loss' = <<v>>
  /\ ops' = Append(ops, "loss")
  /\ pc' = "mean_check"
  /\ UNCHANGED <<dataVars, extractVars, splitVars, optVars, params, grad, epoch,
                 train_iter, batch, trackVars, step_losses, loader_batches,
                 processed, evalVars>>

\* if n_gpu > 1: loss = loss.mean()
MeanIfParallel ==
  /\ pc = "mean_check"
  /\ IF UseMean(n_gpu)
       THEN loss' = TensorMean(loss) /\ ops' = Append(ops, "mean")
       ELSE UNCHANGED <<loss, ops>>
  /\ pc' = "backward"
  /\ UNCHANGED <<dataVars, extractVars, splitVars, optVars, params, grad, epoch,
                 train_iter, batch, trackVars, step_losses, loader_batches,
                 processed, evalVars>>

\* loss.backward(): gradients of the scalar loss are added to .grad
Backward ==
  /\ pc = "backward"
  /\ Len(loss) = 1
  /\ grad' = grad + loss[1]
  /\ ops' = Append(ops, "backward")
  /\ pc' = "step"
  /\ UNCHANGED <<dataVars, extractVars, splitVars, optVars, params, epoch,
                 train_iter, batch, loss, trackVars, step_losses, loader_batches,
                 processed, evalVars>>

\* optimizer.step(): the weights are updated from .grad
OptimizerStep ==
  /\ pc = "step"
  /\ params' = params + 1
  /\ ops' = Append(ops, "step")
  /\ pc' = "track"
  /\ UNCHANGED <<dataVars, extractVars, splitVars, optVars, grad, epoch,
                 train_iter, batch, loss, trackVars, step_losses, loader_batches,
                 processed, evalVars>>

\* tr_loss += loss.item(); nb_tr_examples += b_input_ids.size(0); nb_tr_steps += 1
Track ==
  /\ pc = "track"
  /\ tr_loss' = tr_loss + loss[1]
  /\ nb_tr_examples' = nb_tr_examples + Len(batch)
  /\ nb_tr_steps' = nb_tr_steps + 1
  /\ step_losses' = Append(step_losses, loss[1])
  /\ processed' = Append(processed, batch)
  /\ pc' = "batch_head"
  /\ UNCHANGED <<dataVars, extractVars, splitVars, optVars, params, grad, epoch,
                 train_iter, batch, loss, train_out, ops, loader_batches, evalVars>>

\* print("Train loss: {}".format(tr_loss/nb_tr_steps))
PrintTrainLoss ==
  /\ pc = "print"
  /\ nb_tr_steps # 0
  /\ train_out' = Append(train_out, [num |-> tr_loss, den |-> nb_tr_steps])
  /\ pc' = "epoch_head"
  /\ UNCHANGED <<dataVars, extractVars, splitVars, optVars, params, grad, epoch,
                 train_iter, batch, loss, tr_loss, nb_tr_examples, nb_tr_steps,
                 histVars, evalVars>>

\* tr_loss/nb_tr_steps with no step taken: ZeroDivisionError, the run aborts
PrintDivisionByZero ==
  /\ pc = "print"
  /\ nb_tr_steps = 0
  /\ pc' = "failed"
  /\ UNCHANGED <<dataVars, extractVars, splitVars, optVars, trainVars, evalVars>>

TrainLoop ==
  \/ EpochStart
  \/ TrainDone
  \/ NextBatch
  \/ EpochBatchesDone
  \/ ZeroGrad
  \/ Forward
  \/ ComputeLoss
  \/ MeanIfParallel
  \/ Backward
  \/ OptimizerStep
  \/ Track
  \/ PrintTrainLoss
  \/ PrintDivisionByZero

(***************************************************************************)
(* Model evaluation (cells beautiful-gambling, tracked-france)             *)
(***************************************************************************)
\* logits the model can give an entry: below, at and above the point where the
\* sigmoid crosses the threshold
LogitValues == {-1, 0, 1}

\* torch.sigmoid, in thousandths: sigmoid(-1) = .269, sigmoid(0) = .5, sigmoid(1) = .731
Sigmoid(x) == CASE x < 0 -> 269 [] x = 0 -> 500 [] x > 0 -> 731

\* threshold = 0.50, in thousandths
threshold == 500

\* num_labels = len(label_names)
num_labels == Len(label_names)

\* a forward pass under torch.no_grad() leaves the weights as they are
NoGradForward(weights) == weights

(* exact rationals *)
RECURSIVE Gcd(_, _)
Gcd(a, b) == IF b = 0 THEN a ELSE Gcd(b, a % b)

Rat(n, d) == LET g == Gcd(n, d) IN IF n = 0 THEN [num |-> 0, den |-> 1]
                                   ELSE [num |-> n \div g, den |-> d \div g]

RatAdd(x, y) == Rat(x.num * y.den + y.num * x.den, x.den * y.den)

RECURSIVE RatSum(_)
RatSum(s) == IF s = <<>> THEN Rat(0, 1) ELSE RatAdd(Head(s), RatSum(Tail(s)))

(* sklearn.metrics on multilabel-indicator input: y_true and y_pred are lists
   of boolean vectors, one per sample, of two or more entries *)
Count(y_true, y_pred, l, t, p) ==
  Cardinality({k \in 1..Len(y_true) : y_true[k][l] = t /\ y_pred[k][l] = p})

\* F1 of one label: 2tp / (2tp + fp + fn), and 0 where that is 0/0
\* (zero_division="warn")
LabelF1(y_true, y_pred, l) ==
  LET tp == Count(y_true, y_pred, l, TRUE, TRUE)
      fp == Count(y_true, y_pred, l, FALSE, TRUE)
      fn == Count(y_true, y_pred, l, TRUE, FALSE)
  IN  IF 2 * tp + fp + fn = 0 THEN Rat(0, 1) ELSE Rat(2 * tp, 2 * tp + fp + fn)

\* f1_score(y_true, y_pred, average='macro'): unweighted mean over the labels
f1_score_macro(y_true, y_pred) ==
  LET n == Len(y_true[1])
      total == RatSum([l \in 1..n |-> LabelF1(y_true, y_pred, l)])
  IN  Rat(total.num, total.den * n)

\* accuracy_score(y_true, y_pred) on multilabel input is the subset accuracy:
\* the fraction of samples whose whole label vector is predicted exactly
accuracy_score(y_true, y_pred) ==
  Rat(Cardinality({k \in 1..Len(y_true) : y_true[k] = y_pred[k]}), Len(y_true))

\* multilabel_confusion_matrix(y_true, y_pred): for each label, in column
\* order, [[tn, fp], [fn, tp]]
multilabel_confusion_matrix(y_true, y_pred) ==
  [l \in 1..Len(y_true[1]) |->
     << <<Count(y_true, y_pred, l, FALSE, FALSE), Count(y_true, y_pred, l, FALSE, TRUE)>>,
        <<Count(y_true, y_pred, l, TRUE, FALSE), Count(y_true, y_pred, l, TRUE, TRUE)>> >>]

\* zip(a, b): pairs up to the shorter length
Zip(a, b) ==
  LET n == IF Len(a) <= Len(b) THEN Len(a) ELSE Len(b)
  IN  [i \in 1..n |-> <<a[i], b[i]>>]

\* pl > threshold, tl == 1, entry by entry
PredBools(probs) == [k \in 1..Len(probs) |-> [l \in 1..Len(probs[k]) |-> probs[k][l] > threshold]]
TrueBools(truth) == [k \in 1..Len(truth) |-> [l \in 1..Len(truth[k]) |-> truth[k][l] = 1]]

\* x * 100
Times100(x) == Rat(x.num * 100, x.den)

\* model.eval(); the result lists are emptied; the loader iterator is created
EvalStart ==
  /\ pc = "eval"
  /\ logit_preds' = <<>>
  /\ true_labels' = <<>>
  /\ pred_labels' = <<>>
  /\ val_iter' = ValBatches(validation_dataset)
  /\ forwarded' = <<>>
  /\ pc' = "eval_batch"
  /\ UNCHANGED <<dataVars, extractVars, splitVars, optVars, trainVars, pred_bools,
                 true_bools, val_f1_accuracy, val_flat_accuracy, cf_out>>

\* one iteration of `for batch in val_dataloader`: forward pass without
\* gradients, sigmoid, the three lists extended by the batch's rows
EvalBatch ==
  /\ pc = "eval_batch"
  /\ val_iter # <<>>
  /\ LET b == Head(val_iter)
     IN  \E b_logit_pred \in [1..Len(b) -> [1..num_labels -> LogitValues]] :
           /\ params' = NoGradForward(params)
           /\ logit_preds' = logit_preds \o b_logit_pred
           /\ pred_labels' = pred_labels \o
                [k \in 1..Len(b) |-> [l \in 1..num_labels |-> Sigmoid(b_logit_pred[k][l])]]
           /\ true_labels' = true_labels \o [k \in 1..Len(b) |-> labels[b[k]]]
           /\ forwarded' = Append(forwarded, b)
  /\ val_iter' = Tail(val_iter)
  /\ pc' = "eval_batch"
  /\ UNCHANGED <<dataVars, extractVars, splitVars, optVars, grad, epoch, train_iter,
                 batch, loss, trackVars, histVars, pred_bools, true_bools,
                 val_f1_accuracy, val_flat_accuracy, cf_out>>

\* after the loop: thresholding and the two metrics, each times 100
Metrics ==
  /\ pc = "eval_batch"
  /\ val_iter = <<>>
  /\ pred_bools' = PredBools(pred_labels)
  /\ true_bools' = TrueBools(true_labels)
  /\ val_f1_accuracy' = Times100(f1_score_macro(true_bools', pred_bools'))
  /\ val_flat_accuracy' = Times100(accuracy_score(true_bools', pred_bools'))
  /\ pc' = "confusion"
  /\ UNCHANGED <<dataVars, extractVars, splitVars, optVars, trainVars, val_iter,
                 forwarded, logit_preds, true_labels, pred_labels, cf_out>>

\* for label, cf in zip(label_names, multilabel_confusion_matrix(...)): print both
ConfusionCell ==
  /\ pc = "confusion"
  /\ cf_out' = Zip(label_names, multilabel_confusion_matrix(true_bools, pred_bools))
  /\ pc' = "done"
  /\ UNCHANGED <<dataVars, extractVars, splitVars, optVars, trainVars, val_iter,
                 forwarded, logit_preds, true_labels, pred_labels, pred_bools,
                 true_bools, val_f1_accuracy, val_flat_accuracy>>

Evaluation == EvalStart \/ EvalBatch \/ Metrics \/ ConfusionCell

(***************************************************************************)
(* The notebook from the training cell on, for datasets of up to           *)
(* MaxTrainN rows                                                          *)
(***************************************************************************)
MaxTrainN == 3

\* the splits random_split can have produced for n samples
Split(n) ==
  /\ dataset_size = n
  /\ train_size = TrainSize(n)
  /\ \E perm \in Perms(n) :
       /\ training_dataset = RandomSplit(perm, TrainSize(n), n - TrainSize(n))[1]
       /\ validation_dataset = RandomSplit(perm, TrainSize(n), n - TrainSize(n))[2]

InitTrain ==
  /\ pc = "epoch_head"
  /\ \E n \in 1..MaxTrainN :
       /\ Extracted(PlainColumns, [r \in 1..n |-> PlainRow])
       /\ Split(n)
  /\ n_gpu \in 1..MaxGpu
  /\ param_optimizer = ParameterNames
  /\ optimizer_grouped_parameters = OptimizerGroups(ParameterNames)
  /\ NoTrain
  /\ NoEval

NextTrain == TrainLoop \/ Evaluation

SpecTrain == InitTrain /\ [][NextTrain]_vars

(***************************************************************************)
(* The evaluation cells, for tables of two or more label columns (the      *)
(* multi-label case the notebook is written for) and up to MaxEvalN rows   *)
(***************************************************************************)
MaxEvalN == 2

\* column lists with `text` at any position and the labels in LabelOrder
EvalColumnLists(nLabels) ==
  {c \in ColumnLists(nLabels) : ListRemove(c, TextColumn) = SubSeq(LabelOrder, 1, nLabels)}

\* the kernel after the training cell, in the run whose loader followed the
\* subset's order in every epoch and whose losses were all 1
Trained ==
  LET bs == TrainBatches(training_dataset)
      nb == Len(bs)
  IN  /\ params = epochs * nb
      /\ grad = 1
      /\ epoch = epochs
      /\ train_iter = <<>>
      /\ batch = bs[nb]
      /\ loss = <<1>>
      /\ tr_loss = nb
      /\ nb_tr_examples = Len(training_dataset)
      /\ nb_tr_steps = nb
      /\ train_out = [e \in 1..epochs |-> [num |-> nb, den |-> nb]]
      /\ ops = IF UseMean(n_gpu)
                 THEN <<"zero_grad", "forward", "loss", "mean", "backward", "step">>
                 ELSE <<"zero_grad", "forward", "loss", "backward", "step">>
      /\ step_losses = [k \in 1..nb |-> 1]
      /\ loader_batches = bs
      /\ processed = bs

\* at least two rows: with one row the training subset is empty and the
\* training cell has aborted
InitEval ==
  /\ pc = "eval"
  /\ \E nl \in 2..MaxLabels : \E cols \in EvalColumnLists(nl) :
       \E n \in 2..MaxEvalN : \E rows \in SeqsOfLen(RowsOf(cols), n) :
          /\ Extracted(cols, rows)
          /\ Split(n)
  /\ n_gpu = 1
  /\ param_optimizer = ParameterNames
  /\ optimizer_grouped_parameters = OptimizerGroups(ParameterNames)
  /\ Trained
  /\ NoEval

NextEval == Evaluation

SpecEval == InitEval /\ [][NextEval]_vars

(***************************************************************************)
(* Properties                                                              *)
(***************************************************************************)
NoDuplicates(q) == \A i, j \in 1..Len(q) : q[i] = q[j] => i = j

RECURSIVE Flatten(_)
Flatten(ss) == IF ss = <<>> THEN <<>> ELSE Head(ss) \o Flatten(Tail(ss))

Occurrences(q, x) == Cardinality({i \in 1..Len(q) : q[i] = x})

\* C1: once the split is made, for every dataset size N the training and
\* validation subsets are disjoint, together hold every sample 1..N exactly
\* once, the training subset has floor(0.8 N) samples and the validation subset
\* the other N - floor(0.8 N), so the sizes sum to N.
SplitIsPartition ==
  pc = "model" =>
    LET N == Len(input_ids)
        t == Len(training_dataset)
    IN  /\ Range(training_dataset) \cap Range(validation_dataset) = {}
        /\ Range(training_dataset) \cup Range(validation_dataset) = 1..N
        /\ NoDuplicates(training_dataset)
        /\ NoDuplicates(validation_dataset)
        /\ 10 * t <= 8 * N
        /\ 8 * N < 10 * (t + 1)
        /\ Len(validation_dataset) = N - t
        /\ t + Len(validation_dataset) = N

\* a split where 0.8 N is not whole, so that the rounding down shows
SplitWitness ==
  /\ pc = "model"
  /\ (8 * Len(input_ids)) % 10 # 0
  /\ Len(training_dataset) >= 2
  /\ Len(validation_dataset) >= 1

\* C4: after label extraction the label names are exactly the columns other
\* than `text`, in the table's column order, and the label matrix has one row
\* per table row and (number of columns - 1) columns.
LabelExtractionShape ==
  LET IsLabel(c) == c # TextColumn
  IN  /\ pc \in {"labels", "tokenize", "split"} =>
           label_names = SelectSeq(df_columns, IsLabel)
      /\ pc \in {"tokenize", "split"} =>
           /\ Len(labels) = Len(df_rows)
           /\ \A r \in 1..Len(labels) : Len(labels[r]) = Len(df_columns) - 1

\* extraction from a table of two rows whose `text` column is not the first
LabelExtractionWitness ==
  /\ pc = "tokenize"
  /\ Len(df_rows) = 2
  /\ Len(df_columns) = 3
  /\ df_columns[1] # TextColumn
  /\ Len(labels) = 2

(* comparisons of exact rationals with whole numbers *)
RatIs(x, n) == x.num = n * x.den
RatWithin(x, lo, hi) == lo * x.den <= x.num /\ x.num <= hi * x.den

MetricsReported == pc \in {"confusion", "done"}

\* C2: the macro F1 and the flat accuracy the evaluator reports (each times
\* 100) lie in [0, 100], and both are 100 whenever the thresholded predictions
\* equal the ground-truth booleans for every validation sample and every label.
MetricsInRangeAndPerfectIs100 ==
  MetricsReported =>
    /\ RatWithin(val_f1_accuracy, 0, 100)
    /\ RatWithin(val_flat_accuracy, 0, 100)
    /\ pred_bools = true_bools =>
         RatIs(val_f1_accuracy, 100) /\ RatIs(val_flat_accuracy, 100)

\* C3: the flat accuracy reported is the number of correct individual label
\* predictions over the number of all label predictions of the validation set
\* (every (sample, label) entry counted once), times 100.
FlatAccuracyIsPerEntry ==
  MetricsReported =>
    LET entries == {<<k, l>> \in (1..Len(true_bools)) \X (1..num_labels) : TRUE}
        correct == {e \in entries : pred_bools[e[1]][e[2]] = true_bools[e[1]][e[2]]}
    IN  val_flat_accuracy.num * Cardinality(entries)
          = 100 * Cardinality(correct) * val_flat_accuracy.den

\* the table column that supplies the i-th label: the i-th column other than `text`
NthLabelColumn(i) ==
  CHOOSE j \in 1..Len(df_columns) :
    /\ df_columns[j] # TextColumn
    /\ Cardinality({m \in 1..j : df_columns[m] # TextColumn}) = i

\* the confusion matrix of label i, counted on the table itself: the truth is
\* the table's value for each validation sample, the prediction is whether the
\* sample's i-th logit is positive
TableConfusion(i) ==
  LET j == NthLabelColumn(i)
      n(t, p) == Cardinality({k \in 1..Len(validation_dataset) :
                    /\ (df_rows[validation_dataset[k]][j] = 1) = t
                    /\ (logit_preds[k][i] > 0) = p})
  IN  << <<n(FALSE, FALSE), n(FALSE, TRUE)>>, <<n(TRUE, FALSE), n(TRUE, TRUE)>> >>

\* C5: the label-index mapping is the same at extraction and at reporting: the
\* evaluator prints one pair per label column, the i-th matrix is the confusion
\* matrix of the table column that supplied label-matrix column i against
\* column i of the predictions, and the name printed with it is that table
\* column's name, whichever samples the split put in the validation subset.
LabelIndexConsistent ==
  pc = "done" =>
    /\ Len(cf_out) = Len(df_columns) - 1
    /\ \A i \in 1..Len(cf_out) :
         /\ cf_out[i][1] = df_columns[NthLabelColumn(i)]
         /\ cf_out[i][2] = TableConfusion(i)

\* a report for a table whose `text` column is not the first and whose labels
\* give different matrices
LabelIndexWitness ==
  /\ pc = "done"
  /\ df_columns[1] # TextColumn
  /\ Len(cf_out) = 2
  /\ cf_out[1][2] # cf_out[2][2]

\* C10: the optimizer's two parameter groups partition the model's named
\* parameters, the group with rate 0.0 holds every bias parameter and every
\* normalization parameter, and every other parameter is in the group with
\* rate 0.01.
DecayGroupsExemptBiasAndNorm ==
  pc = "epoch_head" =>
    LET decayed == optimizer_grouped_parameters[1]
        exempt == optimizer_grouped_parameters[2]
    IN  /\ Len(optimizer_grouped_parameters) = 2
        /\ decayed.weight_decay_rate = 10
        /\ exempt.weight_decay_rate = 0
        /\ Range(decayed.params) \cap Range(exempt.params) = {}
        /\ Range(decayed.params) \cup Range(exempt.params) = Range(param_optimizer)
        /\ Len(decayed.params) + Len(exempt.params) = Len(param_optimizer)
        /\ \A n \in Range(param_optimizer) :
             n \in Range(exempt.params) <=> (IsBias(n) \/ IsNormalization(n))

(* the training loop *)
InTrainingLoop ==
  pc \in {"epoch_head", "batch_head", "zero_grad", "forward", "loss", "mean_check",
          "backward", "step", "track", "print"}

InsideEpoch == InTrainingLoop /\ pc # "epoch_head"

AfterTraining == pc \in {"eval", "eval_batch", "confusion", "done"}

IsPrefix(p, q) == Len(p) <= Len(q) /\ SubSeq(q, 1, Len(p)) = p

\* C6: with more than one device (n_gpu > 1), in every training step the loss
\* is averaged into a single value before the backward pass of that step
\* starts: whenever backward has run on a batch, the averaging ran on that
\* batch just before it, after the loss was computed, and what backward was
\* given is a single value.
LossAveragedBeforeBackward ==
  n_gpu > 1 =>
    /\ pc = "backward" => ops[Len(ops)] = "mean" /\ Len(loss) = 1
    /\ \A j \in 1..Len(ops) :
         ops[j] = "backward" => j > 2 /\ ops[j - 1] = "mean" /\ ops[j - 2] = "loss"

\* a backward pass has run on a batch with two devices in use
LossAveragedWitness ==
  /\ n_gpu > 1
  /\ pc = "step"
  /\ ops[Len(ops)] = "backward"
  /\ epoch = 2

\* the order of the steps on one batch (averaging aside)
StepOrder == <<"zero_grad", "forward", "loss", "backward", "step">>

IsStep(op) == op # "mean"

\* what every state of the training loop satisfies
TrainingLoopOrder ==
  /\ IsPrefix(SelectSeq(ops, IsStep), StepOrder)
  /\ InTrainingLoop => epoch <= 4
  /\ InsideEpoch =>
       /\ epoch >= 1
       /\ pc \in {"batch_head", "print"} => processed \o train_iter = loader_batches
       /\ pc \notin {"batch_head", "print"} =>
            processed \o <<batch>> \o train_iter = loader_batches
       /\ pc \in {"batch_head", "print"} /\ processed # <<>> =>
            SelectSeq(ops, IsStep) = StepOrder
       /\ pc = "track" => SelectSeq(ops, IsStep) = StepOrder
       /\ pc = "step" => ops[Len(ops)] = "backward"
       /\ params = (epoch - 1) * Len(loader_batches) + Len(processed)
                     + (IF pc = "track" THEN 1 ELSE 0)
       /\ \A s \in Range(training_dataset) : Occurrences(Flatten(loader_batches), s) = 1
       /\ Len(Flatten(loader_batches)) = Len(training_dataset)
  /\ pc = "print" => train_iter = <<>> /\ processed = loader_batches
  /\ AfterTraining =>
       /\ epoch = 4
       /\ processed = loader_batches
       /\ Len(train_out) = 4

\* what is left of the training loop, as a number: it goes down with every
\* step of the loop and is -1 once the loop is left
TrainingRank ==
  LET perEpoch == 8 * (Len(training_dataset) + 1) + 3
      toBatchHead == CASE pc = "zero_grad" -> 7 [] pc = "forward" -> 6
                       [] pc = "loss" -> 5 [] pc = "mean_check" -> 4
                       [] pc = "backward" -> 3 [] pc = "step" -> 2
                       [] pc = "track" -> 1 [] OTHER -> 0
  IN  IF ~InTrainingLoop THEN -1
      ELSE IF pc = "epoch_head" THEN (4 - epoch) * perEpoch
      ELSE IF pc = "print" THEN (4 - epoch) * perEpoch + 1
      ELSE (4 - epoch) * perEpoch + 8 * Len(train_iter) + toBatchHead + 2

\* C7: the training loop runs exactly 4 epochs and then ends (no state of
\* the loop is stuck, and every step brings the end nearer); within an epoch
\* every batch of the loader is processed exactly once (and so every training
\* sample), the steps on a batch run in the order clear gradients, forward,
\* loss, backward, optimizer step, with exactly one optimizer step per batch,
\* never without the backward pass on that batch before it.
FourEpochsInOrder ==
  /\ []TrainingLoopOrder
  /\ [](InTrainingLoop => ENABLED TrainLoop)
  /\ [][InTrainingLoop => TrainingRank' < TrainingRank /\ TrainingRank' >= -1]_vars

\* the loop has ended after epochs of more than one batch
FourEpochsWitness ==
  /\ pc = "eval"
  /\ epoch = 4
  /\ Len(processed) >= 2
  /\ params = 4 * Len(processed)

\* C8: the training loss is reported once per epoch, at its end, and the value
\* reported is the sum of the losses of that epoch's steps over the number of
\* those steps; no loss of an earlier epoch is in it.
EpochLossReported ==
  /\ InsideEpoch \/ pc = "failed" => Len(train_out) = epoch - 1
  /\ pc = "epoch_head" \/ AfterTraining => Len(train_out) = epoch
  /\ (pc = "epoch_head" \/ AfterTraining) /\ epoch >= 1 =>
       /\ train_out[epoch].num = SeqSum(step_losses)
       /\ train_out[epoch].den = Len(step_losses)
       /\ Len(step_losses) = Len(loader_batches)

\* a second epoch of two steps has been reported, with a loss other than the
\* first epoch's
EpochLossWitness ==
  /\ pc = "epoch_head"
  /\ epoch = 2
  /\ Len(step_losses) = 2
  /\ train_out[1].num # train_out[2].num

\* what the evaluation loop has covered so far
EvalCoverage ==
  /\ pc = "eval_batch" =>
       /\ Flatten(forwarded) \o Flatten(val_iter) = validation_dataset
       /\ Len(true_labels) = Len(Flatten(forwarded))
  /\ pc \in {"confusion", "done"} =>
       /\ Flatten(forwarded) = validation_dataset
       /\ \A s \in Range(validation_dataset) : Occurrences(Flatten(forwarded), s) = 1
       /\ Len(forwarded) * ValBatchSize >= Len(validation_dataset)
       /\ (Len(forwarded) - 1) * ValBatchSize < Len(validation_dataset)
       /\ Len(true_labels) = Len(validation_dataset)
       /\ Len(pred_labels) = Len(validation_dataset)

====
